---- MODULE Spec2Model ----
(***************************************************************************)
(* A model of dendropy/splits.py: the bit-set utilities, encode_splits and *)
(* the SplitDistribution aggregate.  Split masks are natural numbers, bit  *)
(* i standing for the taxon at index i of the taxa block.  Floats are      *)
(* modelled exactly: branch lengths and node ages as integers, split       *)
(* frequencies as reduced fractions <<numerator, denominator>>.            *)
(***************************************************************************)
EXTENDS Integers, Sequences, FiniteSets, TLC

VARIABLES
    taxa_block,                 \* self.taxa_block: the ordered taxon labels
    total_trees_counted,        \* self.total_trees_counted
    splits,                     \* self.splits: keys in order of first sight
    split_counts,               \* self.split_counts
    split_edge_lengths,         \* self.split_edge_lengths
    split_node_ages,            \* self.split_node_ages
    ignore_edge_lengths,        \* self.ignore_edge_lengths
    ignore_node_ages,           \* self.ignore_node_ages
    unrooted,                   \* self.unrooted
    split_freqs,                \* self.__split_freqs (None or a table)
    trees_counted_for_freqs,    \* self.__trees_counted_for_freqs
    tree,                       \* the tree object handed to the last call
    last_call,                  \* the last operation and how it ended
    returned,                   \* what the last operation returned
    util                        \* the last call of a module-level function

vars == <<taxa_block, total_trees_counted, splits, split_counts,
          split_edge_lengths, split_node_ages, ignore_edge_lengths,
          ignore_node_ages, unrooted, split_freqs, trees_counted_for_freqs,
          tree, last_call, returned, util>>

dist_vars == <<taxa_block, total_trees_counted, splits, split_counts,
               split_edge_lengths, split_node_ages, ignore_edge_lengths,
               ignore_node_ages, unrooted, split_freqs,
               trees_counted_for_freqs, tree, last_call, returned>>

----------------------------------------------------------------------------
(* Bounds of the model.                                                    *)

\* Largest number of nodes of a tree handed to encode_splits on its own.
MaxNodes == 4
\* Largest number of count_splits_on_tree calls on one distribution.
MaxTrees == 2
\* Largest argument handed to count_bits.
MaxValue == 300
\* Most negative argument handed to count_bits is -MaxNegative.
MaxNegative == 4
\* Widest full mask (number of taxa) handed to is_non_singleton_split.
MaxMaskBits == 5
\* Largest taxa block handed to split_as_string and split_as_string_rev.
MaxTaxa == 4
\* Number of bits of the values and masks handed to iter_split_indices.
MaxIndexBits == 4

----------------------------------------------------------------------------
(* Python values.                                                          *)

None == "None"
ValueError == "ValueError"
UnknownTaxon == "UnknownTaxon"

\* edge.length of an edge without a length (None); lengths are >= 0.
NoLength == -1

\* self.__split_freqs before the first computation (None); a computed
\* table t is held as <<t>>.
NoTable == << >>

\* The outcome of a call: a returned value or a raised exception.
Return(v) == [raised |-> "", value |-> v]
Raise(e) == [raised |-> e, value |-> 0]

\* Python truthiness of an integer.
Truthy(x) == x # 0

RECURSIVE BitAnd(_, _)
\* a & b on non-negative integers.
BitAnd(a, b) ==
    IF a = 0 \/ b = 0 THEN 0
    ELSE (a % 2) * (b % 2) + 2 * BitAnd(a \div 2, b \div 2)

RECURSIVE BitOr(_, _)
\* a | b on non-negative integers.
BitOr(a, b) ==
    IF a = 0 THEN b
    ELSE IF b = 0 THEN a
    ELSE (IF a % 2 = 1 \/ b % 2 = 1 THEN 1 ELSE 0)
         + 2 * BitOr(a \div 2, b \div 2)

RECURSIVE BitXor(_, _)
\* a ^ b on non-negative integers.
BitXor(a, b) ==
    IF a = 0 THEN b
    ELSE IF b = 0 THEN a
    ELSE (((a % 2) + (b % 2)) % 2) + 2 * BitXor(a \div 2, b \div 2)

\* a & b where a may be -1 (two's complement: all bits set).
PyAnd(a, b) == IF a = -1 THEN b ELSE BitAnd(a, b)

RECURSIVE Pow2(_)
Pow2(n) == IF n = 0 THEN 1 ELSE 2 * Pow2(n - 1)

RECURSIVE Gcd(_, _)
Gcd(a, b) == IF b = 0 THEN a ELSE Gcd(b, a % b)

\* float(a) / b, exactly: the reduced fraction.
FloatDiv(a, b) == LET g == Gcd(a, b) IN <<a \div g, b \div g>>

----------------------------------------------------------------------------
(* Bit-set utilities.                                                      *)

n_bits_set == <<0, 1, 1, 2, 1, 2, 2, 3, 1, 2, 2, 3, 2, 3, 3, 4>>

RECURSIVE count_bits_loop(_, _)
\* while c > 0: n_bits += __n_bits_set[c & 0x0F]; c >>= 4
count_bits_loop(c, n_bits) ==
    IF c > 0
    THEN count_bits_loop(c \div 16, n_bits + n_bits_set[BitAnd(c, 15) + 1])
    ELSE n_bits

\* The loop shifting by three bits while masking four.
count_bits_shift3(a) ==
    LET RECURSIVE loop(_, _)
        loop(c, n) == IF c > 0
                      THEN loop(c \div 8, n + n_bits_set[BitAnd(c, 15) + 1])
                      ELSE n
    IN IF a < 1
       THEN (IF a < 0 THEN Raise(ValueError) ELSE Return(0))
       ELSE Return(loop(a, 0))

\* count_bits(a); a is an integer, so long(a) = a and the non-integer
\* error is out of reach.
count_bits(a) ==
    IF a < 1
    THEN (IF a < 0 THEN Raise(ValueError) ELSE Return(0))
    ELSE Return(count_bits_loop(a, 0))

RECURSIVE split_indices_loop_advances_on_split(_, _, _, _, _, _)
\* The loop advancing the reindexed counter on the bits of the masked split
\* instead of the bits of the mask.
split_indices_loop_advances_on_split(maskedSplitRep, mask, standard_ordination, test_bit, currBitIndex, yielded) ==
    IF test_bit <= maskedSplitRep
    THEN split_indices_loop_advances_on_split(maskedSplitRep, mask,
             standard_ordination, 2 * test_bit,
             IF standard_ordination
                  \/ Truthy(PyAnd(maskedSplitRep, test_bit))
             THEN currBitIndex + 1 ELSE currBitIndex,
             IF Truthy(PyAnd(maskedSplitRep, test_bit))
             THEN Append(yielded, currBitIndex) ELSE yielded)
    ELSE yielded

RECURSIVE split_indices_loop(_, _, _, _, _, _)
\* while test_bit <= maskedSplitRep: yield currBitIndex on a set bit,
\* advance it on every bit or on the mask's bits, shift test_bit.
split_indices_loop(maskedSplitRep, mask, standard_ordination, test_bit, currBitIndex, yielded) ==
    IF test_bit <= maskedSplitRep
    THEN split_indices_loop(maskedSplitRep, mask, standard_ordination,
             2 * test_bit,
             IF standard_ordination \/ Truthy(PyAnd(mask, test_bit))
             THEN currBitIndex + 1 ELSE currBitIndex,
             IF Truthy(PyAnd(maskedSplitRep, test_bit))
             THEN Append(yielded, currBitIndex) ELSE yielded)
    ELSE yielded

\* iter_split_indices(s, mask, one_based, ordination_in_mask): the indices
\* it yields, in order; s is non-negative, mask non-negative or -1.
iter_split_indices(s, mask, one_based, ordination_in_mask) ==
    split_indices_loop(PyAnd(mask, s), mask, ~ordination_in_mask, 1,
                       IF one_based THEN 1 ELSE 0, << >>)

\* split_to_list(s, mask, one_based, ordination_in_mask)
split_to_list(s, mask, one_based, ordination_in_mask) ==
    iter_split_indices(s, mask, one_based, ordination_in_mask)

\* The test with the complement's half dropped.
is_non_singleton_split_half(split, mask) ==
    PyAnd(split - 1, split)

\* ((split-1) & split) and (((split^mask)-1) & (split^mask)): Python's
\* `and` returns its first operand when that is falsy, else its second.
is_non_singleton_split(split, mask) ==
    LET a == PyAnd(split - 1, split)
        x == BitXor(split, mask)
        b == PyAnd(x - 1, x)
    IN IF ~Truthy(a) THEN a ELSE b

----------------------------------------------------------------------------
(* Rendering.  A Python string is the sequence of its characters.          *)

\* str(num & 1)
str_of_bit(b) == IF b = 1 THEN "1" ELSE "0"

RECURSIVE number_to_bitstring(_)
\* num>0 and number_to_bitstring(num>>1)+str(num&1) or '': the string built
\* for num > 0 is never empty, so `or` returns it.
number_to_bitstring(num) ==
    IF num > 0
    THEN number_to_bitstring(num \div 2) \o <<str_of_bit(BitAnd(num, 1))>>
    ELSE << >>

\* s.rjust(width, fill): fill on the left up to width, s itself when it is
\* as long or longer.
rjust(s, width, fill) ==
    IF Len(s) >= width THEN s
    ELSE [i \in 1..(width - Len(s)) |-> fill] \o s

\* s.replace(old, new) for a one-character old and new.
replace(s, old, new) ==
    [i \in 1..Len(s) |-> IF s[i] = old THEN new ELSE s[i]]

\* s[::-1]
reversed(s) == [i \in 1..Len(s) |-> s[Len(s) + 1 - i]]

\* split_as_string(split_mask, taxa_block, symbol1, symbol2)
split_as_string(split_mask, tb, symbol1, symbol2) ==
    LET s == rjust(number_to_bitstring(split_mask), Len(tb), "0")
    IN replace(replace(s, "0", symbol1), "1", symbol2)

\* split_as_string_rev(split_mask, taxa_block, symbol1, symbol2)
split_as_string_rev(split_mask, tb, symbol1, symbol2) ==
    reversed(split_as_string(split_mask, tb, symbol1, symbol2))

----------------------------------------------------------------------------
(* Python dictionaries, as functions on their keys.                        *)

EmptyDict == << >>

\* d[k] = v
DictPut(d, k, v) ==
    [x \in (DOMAIN d) \cup {k} |-> IF x = k THEN v ELSE d[x]]

RECURSIVE SortedSeq(_)
\* The elements of a finite set of integers, ascending.
SortedSeq(S) ==
    IF S = {} THEN << >>
    ELSE LET m == CHOOSE x \in S : \A y \in S : x <= y
         IN <<m>> \o SortedSeq(S \ {m})

----------------------------------------------------------------------------
(* The taxa block and the tree, the collaborators splits.py calls.         *)

\* The taxon labels a taxa block is drawn from, in index order; the first
\* four are the universe of the four-taxon scenario.
TaxonLabels == <<"A", "B", "C", "D", "E", "F">>

\* A taxon no taxa block of the model holds.
ForeignTaxon == "X"

\* Whether the taxon is one of the block.
has_taxon(tb, taxon) == \E i \in 1..Len(tb) : tb[i] = taxon

\* The index (from 0) of a taxon of the block.
taxon_index(tb, taxon) == (CHOOSE i \in 1..Len(tb) : tb[i] = taxon) - 1

\* taxa_block.taxon_bitmask(taxon): the singleton bit of the taxon's index.
taxon_bitmask(tb, taxon) == Pow2(taxon_index(tb, taxon))

\* taxa_block.all_taxa_bitmask(): one bit per taxon of the block.
all_taxa_bitmask(tb) == Pow2(Len(tb)) - 1

\* node.child_nodes(): the children of node i, in order.
child_nodes(t, i) == SortedSeq({j \in 1..t.n : t.parent[j] = i})

RECURSIVE postorder_from(_, _)
RECURSIVE postorder_of_all(_, _)
\* The nodes below and including node i, descendants before the node.
postorder_from(t, i) == postorder_of_all(t, child_nodes(t, i)) \o <<i>>
postorder_of_all(t, nodes) ==
    IF nodes = << >> THEN << >>
    ELSE postorder_from(t, Head(nodes)) \o postorder_of_all(t, Tail(nodes))

\* tree.postorder_edge_iter(): one edge per node, named by its head node,
\* the root's edge last.
postorder_edge_iter(t) == postorder_from(t, 1)

\* tree.normalize_taxa(taxa_block): every taxon of the tree is re-expressed
\* as the taxon of the block with its label; a taxon that is not in the
\* block raises.
normalize_taxa(t, tb) ==
    IF \A i \in 1..t.n : t.taxon[i] = None \/ has_taxon(tb, t.taxon[i])
    THEN [raised |-> "", tree |-> t]
    ELSE [raised |-> UnknownTaxon, tree |-> t]

RECURSIVE distance_from_tip(_, _)
\* node.distance_from_tip(): 0 at a leaf, else the longest way down, an
\* edge without a length counting 0.
distance_from_tip(t, i) ==
    LET ch == {j \in 1..t.n : t.parent[j] = i}
        down(j) == distance_from_tip(t, j)
                   + (IF t.length[j] = NoLength THEN 0 ELSE t.length[j])
    IN IF ch = {} THEN 0
       ELSE CHOOSE d \in {down(j) : j \in ch} :
                \A j \in ch : down(j) <= d

\* utils.NormalizedBitmaskDict.normalize: of a split and its complement in
\* the mask, the one without the first taxon's bit.
normalize_key(key, mask) ==
    IF key % 2 = 1 THEN BitXor(key, mask) ELSE key

\* utils.NormalizedBitmaskDict(split_map, mask=mask): every item inserted
\* under its normalized key.  When two keys of split_map normalize to one,
\* the item inserted last stays, and that is the order in which the
\* dictionary iterates: each outcome is possible.
NormalizedBitmaskDict(split_map, mask) ==
    LET keys == {normalize_key(k, mask) : k \in DOMAIN split_map}
        from(nk) == {split_map[k] :
                       k \in {r \in DOMAIN split_map :
                                normalize_key(r, mask) = nk}}
        edges == {split_map[k] : k \in DOMAIN split_map}
    IN {[normalized |-> TRUE, mask |-> mask, items |-> f] :
          f \in {g \in [keys -> edges] :
                   \A nk \in keys : g[nk] \in from(nk)}}

\* A plain dict as tree.split_edges.
PlainDict(split_map) ==
    [normalized |-> FALSE, mask |-> 0, items |-> split_map]

\* The key under which split_edges holds `key`.
split_edges_key(d, key) ==
    IF d.normalized THEN normalize_key(key, d.mask) ELSE key

\* `key in split_edges`
split_edges_has(d, key) == split_edges_key(d, key) \in DOMAIN d.items

\* split_edges[key], for a key it has.
split_edges_get(d, key) == d.items[split_edges_key(d, key)]

----------------------------------------------------------------------------
(* The trees handed to the model.                                          *)

\* No tree: the tree variable before the first call.
NoTree ==
    [n |-> 0, parent |-> << >>, taxon |-> << >>, length |-> << >>,
     is_rooted |-> FALSE, split_mask |-> << >>,
     split_edges |-> PlainDict(EmptyDict)]

\* Node 1 is the root; the parent of every other node precedes it.
ParentVectors(n) ==
    {p \in [1..n -> 0..(n - 1)] :
       /\ p[1] = 0
       /\ \A i \in 2..n : p[i] >= 1 /\ p[i] < i}

\* A leaf carries a taxon of the block, a foreign taxon or none; an inner
\* node carries none.
TaxonAssignments(n, p, tb) ==
    {tx \in [1..n -> {tb[i] : i \in 1..Len(tb)} \cup {ForeignTaxon, None}] :
       \A i \in 1..n : (\E j \in 1..n : p[j] = i) => tx[i] = None}

\* The root's edge has no length and the edge into node i has length i, so
\* that the edges of a tree differ.
EdgeLengths(n) == [i \in 1..n |-> IF i = 1 THEN NoLength ELSE i]

\* The trees of one shape over the taxa block, not yet encoded.
TreesOfShape(p, tb) ==
    {[n |-> Len(p), parent |-> p, taxon |-> tx, length |-> EdgeLengths(Len(p)),
      is_rooted |-> FALSE, split_mask |-> << >>,
      split_edges |-> PlainDict(EmptyDict)] :
        tx \in TaxonAssignments(Len(p), p, tb)}

\* The trees of at most MaxNodes nodes over the taxa block.
Trees(tb) ==
    UNION {UNION {TreesOfShape(p, tb) : p \in ParentVectors(n)} :
             n \in 1..MaxNodes}

\* The shapes of the trees counted into a distribution: a single leaf, a
\* root over one leaf, a root over two leaves.
CountedShapes == {<<0>>, <<0, 1>>, <<0, 1, 1>>}

\* The trees handed to count_splits_on_tree.
CountedTrees(tb) == UNION {TreesOfShape(p, tb) : p \in CountedShapes}

----------------------------------------------------------------------------
(* encode_splits.                                                          *)

RECURSIVE or_split_masks_last_child(_, _, _)
\* The loop assigning each child's mask instead of or-ing it in.
or_split_masks_last_child(masks, children, acc) ==
    IF children = << >> THEN acc
    ELSE or_split_masks_last_child(masks, Tail(children),
                                   masks[Head(children)])

RECURSIVE or_split_masks(_, _, _)
\* for child in child_nodes: edge.split_mask |= child.edge.split_mask
or_split_masks(masks, children, acc) ==
    IF children = << >> THEN acc
    ELSE or_split_masks(masks, Tail(children),
                        BitOr(acc, masks[Head(children)]))

\* The split mask of one edge, its children's masks being set.
edge_split_mask(t, tb, masks, edge) ==
    LET children == child_nodes(t, edge)
    IN IF children # << >>
       THEN or_split_masks(masks, children, 0)
       ELSE IF t.taxon[edge] # None
            THEN taxon_bitmask(tb, t.taxon[edge])
            ELSE 0

RECURSIVE encode_edges_inner_only(_, _, _, _, _)
\* The loop with `split_map[split_mask] = edge` inside the inner-node branch.
encode_edges_inner_only(t, tb, order, masks, split_map) ==
    IF order = << >>
    THEN [split_mask |-> masks, split_map |-> split_map]
    ELSE LET edge == Head(order)
             m == edge_split_mask(t, tb, masks, edge)
         IN encode_edges_inner_only(t, tb, Tail(order),
                [masks EXCEPT ![edge] = m],
                IF child_nodes(t, edge) # << >>
                THEN DictPut(split_map, m, edge) ELSE split_map)

RECURSIVE encode_edges(_, _, _, _, _)
\* for edge in tree.postorder_edge_iter(): set edge.split_mask, then
\* split_map[edge.split_mask] = edge
encode_edges(t, tb, order, masks, split_map) ==
    IF order = << >>
    THEN [split_mask |-> masks, split_map |-> split_map]
    ELSE LET edge == Head(order)
             m == edge_split_mask(t, tb, masks, edge)
         IN encode_edges(t, tb, Tail(order),
                         [masks EXCEPT ![edge] = m],
                         DictPut(split_map, m, edge))

\* The test as the docstring words it: a plain dict when unrooted is False,
\* or None and the tree is unrooted.
stores_plain_dict_as_docstring(t, hint) ==
    \/ hint # << >> /\ ~hint[1]
    \/ hint = << >> /\ ~t.is_rooted

\* The rootedness test inverted.
stores_plain_dict_inverted(t, hint) ==
    ~(\/ hint # << >> /\ ~hint[1]
      \/ hint = << >> /\ t.is_rooted)

\* Whether the map is stored as a plain dict; hint is << >> for None and
\* <<b>> for the Boolean b.
stores_plain_dict(t, hint) ==
    \/ hint # << >> /\ ~hint[1]
    \/ hint = << >> /\ t.is_rooted

\* encode_splits without its last branch: the plain dict always.
encode_splits_always_plain(t, tb, hint) ==
    LET enc == encode_edges(t, tb, postorder_edge_iter(t),
                            [i \in 1..t.n |-> 0], EmptyDict)
    IN {[t EXCEPT !.split_mask = enc.split_mask,
                  !.split_edges = PlainDict(enc.split_map)]}

\* encode_splits(tree, taxa_block, unrooted): the trees it can leave, each
\* with its edges' split masks and its split_edges.
encode_splits(t, tb, hint) ==
    LET enc == encode_edges(t, tb, postorder_edge_iter(t),
                            [i \in 1..t.n |-> 0], EmptyDict)
        maps == IF stores_plain_dict(t, hint)
                THEN {PlainDict(enc.split_map)}
                ELSE NormalizedBitmaskDict(enc.split_map,
                                           all_taxa_bitmask(tb))
    IN {[t EXCEPT !.split_mask = enc.split_mask, !.split_edges = d] :
          d \in maps}

----------------------------------------------------------------------------
(* SplitDistribution.                                                      *)

\* The splits of every edge of the tree, a split once for each edge
\* inducing it.
split_edges_iter_per_edge(t) ==
    [i \in 1..t.n |-> split_edges_key(t.split_edges, t.split_mask[i])]

\* `for split in tree.split_edges`: the keys of the map, each once.  The
\* order of a dict's keys is taken to be ascending; no sample and no count
\* depends on it, only the order of self.splits.
split_edges_iter(t) == SortedSeq(DOMAIN t.split_edges.items)

\* The increment counting a new split from 0.
count_split_from_zero(counts, split) ==
    IF split \notin DOMAIN counts
    THEN DictPut(counts, split, 0)
    ELSE DictPut(counts, split, counts[split] + 1)

\* if split not in self.split_counts: self.split_counts[split] = 1
\* else: self.split_counts[split] += 1
count_split(counts, split) ==
    IF split \notin DOMAIN counts
    THEN DictPut(counts, split, 1)
    ELSE DictPut(counts, split, counts[split] + 1)

\* The sample left out when the edge has no length.
add_edge_length_skips_none(lengths, t, split) ==
    LET base == IF split \notin DOMAIN lengths
                THEN DictPut(lengths, split, << >>)
                ELSE lengths
        edge == split_edges_get(t.split_edges, split)
    IN IF t.length[edge] # NoLength
       THEN DictPut(base, split, Append(base[split], t.length[edge]))
       ELSE base

\* The branch-length sample of one split of the tree.
add_edge_length(lengths, t, split) ==
    LET base == IF split \notin DOMAIN lengths
                THEN DictPut(lengths, split, << >>)
                ELSE lengths
        edge == split_edges_get(t.split_edges, split)
    IN IF t.length[edge] # NoLength
       THEN DictPut(base, split, Append(base[split], t.length[edge]))
       ELSE DictPut(base, split, Append(base[split], 0))

\* The node-age sample of one split of the tree; the head node of an edge
\* of the iteration is never None.
add_node_age(ages, t, split) ==
    LET base == IF split \notin DOMAIN ages
                THEN DictPut(ages, split, << >>)
                ELSE ages
        edge == split_edges_get(t.split_edges, split)
    IN DictPut(base, split, Append(base[split], distance_from_tip(t, edge)))

RECURSIVE count_loop_flags_swapped(_, _, _)
\* The loop with each sample guarded by the other flag.
count_loop_flags_swapped(t, keys, d) ==
    IF keys = << >> THEN d
    ELSE LET split == Head(keys)
         IN count_loop_flags_swapped(t, Tail(keys),
              [splits |-> IF split \notin DOMAIN d.split_counts
                          THEN Append(d.splits, split) ELSE d.splits,
               split_counts |-> count_split(d.split_counts, split),
               split_edge_lengths |->
                   IF ~ignore_node_ages
                   THEN add_edge_length(d.split_edge_lengths, t, split)
                   ELSE d.split_edge_lengths,
               split_node_ages |->
                   IF ~ignore_edge_lengths
                   THEN add_node_age(d.split_node_ages, t, split)
                   ELSE d.split_node_ages])

RECURSIVE count_loop(_, _, _)
\* The body of `for split in tree.split_edges`, over the keys left; d holds
\* the distribution's tables.
count_loop(t, keys, d) ==
    IF keys = << >> THEN d
    ELSE LET split == Head(keys)
         IN count_loop(t, Tail(keys),
              [splits |-> IF split \notin DOMAIN d.split_counts
                          THEN Append(d.splits, split) ELSE d.splits,
               split_counts |-> count_split(d.split_counts, split),
               split_edge_lengths |->
                   IF ~ignore_edge_lengths
                   THEN add_edge_length(d.split_edge_lengths, t, split)
                   ELSE d.split_edge_lengths,
               split_node_ages |->
                   IF ~ignore_node_ages
                   THEN add_node_age(d.split_node_ages, t, split)
                   ELSE d.split_node_ages])

\* The table with Python 2's integer division (float() left out).
calc_freqs_table_intdiv(counts, trees_counted) ==
    LET total == IF trees_counted = 0 THEN 1 ELSE trees_counted
    IN [split \in DOMAIN counts |-> <<counts[split] \div total, 1>>]

\* The table calc_freqs builds: float(count) / total for every split.
calc_freqs_table(counts, trees_counted) ==
    LET total == IF trees_counted = 0 THEN 1 ELSE trees_counted
    IN [split \in DOMAIN counts |-> FloatDiv(counts[split], total)]

\* The test with the stamp left out.
freqs_are_stale_none_only(freqs, stamp, trees_counted) ==
    freqs = NoTable

\* self.__split_freqs is None or
\* self.__trees_counted_for_freqs != self.total_trees_counted
freqs_are_stale(freqs, stamp, trees_counted) ==
    freqs = NoTable \/ stamp # trees_counted

\* self.total_trees_counted as a call that raises in normalize_taxa leaves
\* it: the increment is the first statement, before normalize_taxa.
trees_counted_on_raise(trees_counted) == trees_counted + 1

\* count_splits_on_tree(tree)
CountSplitsOnTree(t) ==
    /\ total_trees_counted < MaxTrees
    /\ LET normalized == normalize_taxa(t, taxa_block)
       IN IF normalized.raised = ""
          THEN \E enc \in encode_splits(normalized.tree, taxa_block,
                                        <<unrooted>>) :
                 LET d == count_loop(enc, split_edges_iter(enc),
                            [splits |-> splits,
                             split_counts |-> split_counts,
                             split_edge_lengths |-> split_edge_lengths,
                             split_node_ages |-> split_node_ages])
                 IN /\ total_trees_counted' = total_trees_counted + 1
                    /\ tree' = enc
                    /\ splits' = d.splits
                    /\ split_counts' = d.split_counts
                    /\ split_edge_lengths' = d.split_edge_lengths
                    /\ split_node_ages' = d.split_node_ages
                    /\ last_call' = "count_ok"
                    /\ returned' = None
          ELSE /\ total_trees_counted' =
                      trees_counted_on_raise(total_trees_counted)
               /\ tree' = normalized.tree
               /\ last_call' = "count_raised"
               /\ returned' = normalized.raised
               /\ UNCHANGED <<splits, split_counts, split_edge_lengths,
                              split_node_ages>>
    /\ UNCHANGED <<taxa_block, ignore_edge_lengths, ignore_node_ages,
                   unrooted, split_freqs, trees_counted_for_freqs, util>>

\* calc_freqs()
CalcFreqs ==
    /\ split_freqs' = <<calc_freqs_table(split_counts, total_trees_counted)>>
    /\ trees_counted_for_freqs' = total_trees_counted
    /\ returned' = split_freqs'[1]
    /\ last_call' = "calc_freqs"
    /\ UNCHANGED <<taxa_block, total_trees_counted, splits, split_counts,
                   split_edge_lengths, split_node_ages, ignore_edge_lengths,
                   ignore_node_ages, unrooted, tree, util>>

\* _get_split_frequencies(): the cache, its stamp and the table returned.
get_split_frequencies(freqs, stamp, counts, trees_counted) ==
    IF freqs_are_stale(freqs, stamp, trees_counted)
    THEN [split_freqs |-> <<calc_freqs_table(counts, trees_counted)>>,
          stamp |-> trees_counted,
          returned |-> calc_freqs_table(counts, trees_counted)]
    ELSE [split_freqs |-> freqs, stamp |-> stamp, returned |-> freqs[1]]

\* The split_frequencies property
GetSplitFrequencies ==
    LET r == get_split_frequencies(split_freqs, trees_counted_for_freqs,
                                   split_counts, total_trees_counted)
    IN /\ split_freqs' = r.split_freqs
       /\ trees_counted_for_freqs' = r.stamp
       /\ returned' = r.returned
       /\ last_call' = "split_frequencies"
       /\ UNCHANGED <<taxa_block, total_trees_counted, splits, split_counts,
                      split_edge_lengths, split_node_ages,
                      ignore_edge_lengths, ignore_node_ages, unrooted, tree,
                      util>>

RECURSIVE splits_considered_unconditional(_, _, _, _)
\* The scan with the non-trivial tallies advanced for every split.
splits_considered_unconditional(counts, keys, taxa_mask, acc) ==
    IF keys = << >> THEN acc
    ELSE LET s == Head(keys)
         IN splits_considered_unconditional(counts, Tail(keys), taxa_mask,
                <<acc[1] + counts[s], acc[2] + 1,
                  acc[3] + counts[s], acc[4] + 1>>)

RECURSIVE splits_considered(_, _, _, _)
\* for s in self.split_counts: the four tallies num_splits,
\* num_unique_splits, num_nt_splits, num_nt_unique_splits over the keys left.
splits_considered(counts, keys, taxa_mask, acc) ==
    IF keys = << >> THEN acc
    ELSE LET s == Head(keys)
             nt == Truthy(is_non_singleton_split(s, taxa_mask))
         IN splits_considered(counts, Tail(keys), taxa_mask,
                <<acc[1] + counts[s],
                  acc[2] + 1,
                  IF nt THEN acc[3] + counts[s] ELSE acc[3],
                  IF nt THEN acc[4] + 1 ELSE acc[4]>>)

\* splits_considered()
SplitsConsidered ==
    /\ returned' = splits_considered(split_counts,
                                     SortedSeq(DOMAIN split_counts),
                                     all_taxa_bitmask(taxa_block),
                                     <<0, 0, 0, 0>>)
    /\ last_call' = "splits_considered"
    /\ UNCHANGED <<taxa_block, total_trees_counted, splits, split_counts,
                   split_edge_lengths, split_node_ages, ignore_edge_lengths,
                   ignore_node_ages, unrooted, split_freqs,
                   trees_counted_for_freqs, tree, util>>

\* The caller setting the distribution's options, before any tree is
\* counted: dist.unrooted = b
SetUnrooted(b) ==
    /\ total_trees_counted = 0
    /\ unrooted' = b
    /\ last_call' = "set_option"
    /\ returned' = None
    /\ UNCHANGED <<taxa_block, total_trees_counted, splits, split_counts,
                   split_edge_lengths, split_node_ages, ignore_edge_lengths,
                   ignore_node_ages, split_freqs, trees_counted_for_freqs,
                   tree, util>>

\* dist.ignore_edge_lengths = b
SetIgnoreEdgeLengths(b) ==
    /\ total_trees_counted = 0
    /\ ignore_edge_lengths' = b
    /\ last_call' = "set_option"
    /\ returned' = None
    /\ UNCHANGED <<taxa_block, total_trees_counted, splits, split_counts,
                   split_edge_lengths, split_node_ages, ignore_node_ages,
                   unrooted, split_freqs, trees_counted_for_freqs,
                   tree, util>>

\* dist.ignore_node_ages = b
SetIgnoreNodeAges(b) ==
    /\ total_trees_counted = 0
    /\ ignore_node_ages' = b
    /\ last_call' = "set_option"
    /\ returned' = None
    /\ UNCHANGED <<taxa_block, total_trees_counted, splits, split_counts,
                   split_edge_lengths, split_node_ages, ignore_edge_lengths,
                   unrooted, split_freqs, trees_counted_for_freqs,
                   tree, util>>

\* The taxa block of the four-taxon scenario.
ScenarioBlock == SubSeq(TaxonLabels, 1, 4)

\* The taxa blocks trees are encoded over: two taxa, the smallest block with
\* a split and its complement, and the four of the scenario.
TaxaBlocks == {SubSeq(TaxonLabels, 1, 2), ScenarioBlock}

\* The trees over each taxa block.
TreesOver == [tb \in TaxaBlocks |-> Trees(tb)]
\* The trees counted into the scenario's distribution: their leaves carry
\* one of the block's first three taxa, a foreign taxon or none.
ScenarioTrees == CountedTrees(SubSeq(ScenarioBlock, 1, 3))

NoCall == [fn |-> "none", value |-> 0, mask |-> 0, out |-> 0]

\* SplitDistribution(taxa_block)
InitDistribution ==
    /\ total_trees_counted = 0
    /\ splits = << >>
    /\ split_counts = EmptyDict
    /\ split_edge_lengths = EmptyDict
    /\ split_node_ages = EmptyDict
    /\ ignore_edge_lengths = FALSE
    /\ ignore_node_ages = FALSE
    /\ unrooted = TRUE
    /\ split_freqs = NoTable
    /\ trees_counted_for_freqs = 0
    /\ tree = NoTree
    /\ last_call = "init"
    /\ returned = None

\* SplitDistribution(taxa_block) over the scenario's block
Init ==
    /\ taxa_block = ScenarioBlock
    /\ InitDistribution
    /\ util = NoCall

Next ==
    \/ \E t \in ScenarioTrees : CountSplitsOnTree(t)
    \/ CalcFreqs
    \/ GetSplitFrequencies
    \/ \E b \in BOOLEAN : SetUnrooted(b)

Spec == Init /\ [][Next]_vars

\* The distribution with its sample options set as well.
NextSamples ==
    \/ Next
    \/ \E b \in BOOLEAN : SetIgnoreEdgeLengths(b)
    \/ \E b \in BOOLEAN : SetIgnoreNodeAges(b)

SpecSamples == Init /\ [][NextSamples]_vars

\* The distribution with its summary read as well.
NextConsidered ==
    \/ Next
    \/ SplitsConsidered

SpecConsidered == Init /\ [][NextConsidered]_vars

----------------------------------------------------------------------------
(* encode_splits, called on its own.                                       *)

\* The unrooted argument: None, True or False.
Hints == {<< >>, <<TRUE>>, <<FALSE>>}

HintName(hint) ==
    IF hint = << >> THEN "None" ELSE IF hint[1] THEN "True" ELSE "False"

\* encode_splits(t, taxa_block, unrooted=hint) on a tree that is rooted or
\* not.  The call reads nothing but its arguments, so it is made once, from
\* the initial state.
EncodeSplits(t, rooted, hint) ==
    /\ last_call = "init"
    /\ \A i \in 1..t.n : t.taxon[i] = None \/ has_taxon(taxa_block, t.taxon[i])
    /\ \E enc \in encode_splits([t EXCEPT !.is_rooted = rooted],
                                 taxa_block, hint) :
         tree' = enc
    /\ last_call' = "encode_splits(" \o HintName(hint) \o ")"
    /\ returned' = None
    /\ UNCHANGED <<taxa_block, total_trees_counted, splits, split_counts,
                   split_edge_lengths, split_node_ages, ignore_edge_lengths,
                   ignore_node_ages, unrooted, split_freqs,
                   trees_counted_for_freqs, util>>

\* One call on a fresh tree; EncodeSplits' guard is repeated ahead of the
\* choice of the tree.
NextEncode ==
    /\ last_call = "init"
    /\ \E t \in TreesOver[taxa_block] : \E rooted \in BOOLEAN :
         \E hint \in Hints : EncodeSplits(t, rooted, hint)

InitEncode ==
    /\ taxa_block \in TaxaBlocks
    /\ InitDistribution
    /\ util = NoCall

SpecEncode == InitEncode /\ [][NextEncode]_vars

----------------------------------------------------------------------------
(* The module-level functions, called on their own.                        *)

\* count_bits(v)
CountBits(v) ==
    /\ util' = [fn |-> "count_bits", value |-> v, mask |-> 0,
                out |-> count_bits(v)]
    /\ UNCHANGED dist_vars

\* is_non_singleton_split(s, m)
IsNonSingletonSplit(s, m) ==
    /\ util' = [fn |-> "is_non_singleton_split", value |-> s, mask |-> m,
                out |-> Return(is_non_singleton_split(s, m))]
    /\ UNCHANGED dist_vars

\* split_as_string(split, taxa_block, symbol1, symbol2) on a block of n taxa.
\* The function reads nothing but its arguments, so each call is made from
\* the initial state.
SplitAsString(split, n, symbol1, symbol2) ==
    /\ util = NoCall
    /\ util' = [fn |-> "split_as_string", value |-> split, taxa |-> n,
                symbol1 |-> symbol1, symbol2 |-> symbol2,
                out |-> split_as_string(split, SubSeq(TaxonLabels, 1, n),
                                        symbol1, symbol2)]
    /\ UNCHANGED dist_vars

\* split_as_string_rev(split, taxa_block, symbol1, symbol2)
SplitAsStringRev(split, n, symbol1, symbol2) ==
    /\ util = NoCall
    /\ util' = [fn |-> "split_as_string_rev", value |-> split, taxa |-> n,
                symbol1 |-> symbol1, symbol2 |-> symbol2,
                out |-> split_as_string_rev(split, SubSeq(TaxonLabels, 1, n),
                                            symbol1, symbol2)]
    /\ UNCHANGED dist_vars

\* The one-character symbols handed to the rendering functions: the
\* defaults and the two digits.
Symbols == {".", "*", "0", "1"}

\* The splits rendered over n taxa: those of the block and those with one
\* bit above it.
RenderedSplits(n) == 0..(Pow2(n + 1) - 1)

\* The full masks of 1..MaxMaskBits taxa.
FullMasks == {Pow2(k) - 1 : k \in 1..MaxMaskBits}

InitUtil ==
    /\ taxa_block = ScenarioBlock
    /\ InitDistribution
    /\ util = NoCall

NextUtil ==
    \/ \E v \in (-MaxNegative)..MaxValue : CountBits(v)
    \/ \E m \in FullMasks : \E s \in 0..m : IsNonSingletonSplit(s, m)

SpecUtil == InitUtil /\ [][NextUtil]_vars

\* split_to_list(s, mask, one_based, ordination_in_mask), which runs
\* iter_split_indices to its end.  The function reads nothing but its
\* arguments, so each call is made from the initial state.
SplitToList(s, mask, one_based, ordination_in_mask) ==
    /\ util = NoCall
    /\ util' = [fn |-> "split_to_list", value |-> s, mask |-> mask,
                one_based |-> one_based,
                ordination_in_mask |-> ordination_in_mask,
                out |-> split_to_list(s, mask, one_based,
                                      ordination_in_mask)]
    /\ UNCHANGED dist_vars

\* The values handed in, and the masks: the same and the default, -1.
IndexValues == 0..(Pow2(MaxIndexBits) - 1)
IndexMasks == IndexValues \cup {-1}

NextIndices ==
    \E s \in IndexValues : \E mask \in IndexMasks :
      \E one_based, ordination_in_mask \in BOOLEAN :
        SplitToList(s, mask, one_based, ordination_in_mask)

SpecIndices == InitUtil /\ [][NextIndices]_vars

\* The rendering functions, each call made from the initial state.
NextRender ==
    \/ \E n \in 1..MaxTaxa : \E split \in RenderedSplits(n) :
         \E symbol1, symbol2 \in Symbols :
           SplitAsString(split, n, symbol1, symbol2)
    \/ \E n \in 1..MaxTaxa : \E split \in RenderedSplits(n) :
         \E symbol1, symbol2 \in Symbols :
           SplitAsStringRev(split, n, symbol1, symbol2)

SpecRender == InitUtil /\ [][NextRender]_vars

----------------------------------------------------------------------------
(* Properties.                                                             *)

RECURSIVE BitCount(_)
\* The number of 1 digits of the binary numeral of v >= 0.
BitCount(v) == IF v = 0 THEN 0 ELSE (v % 2) + BitCount(v \div 2)

\* The keys of the last tree's split_edges.
TreeKeys(t) == DOMAIN t.split_edges.items

\* The tree as it was handed in, before encode_splits attached anything.
Unencoded(t) ==
    [t EXCEPT !.split_mask = << >>, !.split_edges = PlainDict(EmptyDict)]

\* C1: a count_splits_on_tree call that raises for a taxon outside the
\* taxa block leaves total_trees_counted, the counts and the samples as
\* they were.
C1_RaisedCallLeavesDistribution ==
    [][last_call' = "count_raised" =>
         UNCHANGED <<total_trees_counted, splits, split_counts,
                     split_edge_lengths, split_node_ages>>]_vars

\* C2: once at least one call was made, split_frequencies holds, for every
\* split seen so far, its count divided by total_trees_counted.
C2_FrequencyIsCountOverTreesCounted ==
    (last_call = "split_frequencies" /\ total_trees_counted >= 1) =>
        /\ DOMAIN returned = DOMAIN split_counts
        /\ \A s \in DOMAIN split_counts :
             /\ returned[s][2] > 0
             /\ returned[s][1] * total_trees_counted
                  = split_counts[s] * returned[s][2]

\* C2 witness: with nothing suppressed, a split of one tree out of two is
\* reported at 1/2.
C2_Witness ==
    /\ last_call = "split_frequencies"
    /\ ~ignore_edge_lengths /\ ~ignore_node_ages
    /\ total_trees_counted = 2
    /\ \E s \in DOMAIN split_counts :
         split_counts[s] = 1 /\ returned[s] = <<1, 2>>

\* The last call was encode_splits.
Encoded ==
    last_call \in {"encode_splits(None)", "encode_splits(True)",
                   "encode_splits(False)"}

\* The last call was encode_splits asked for an unrooted map: unrooted is
\* True, or None on a tree that is not rooted.
EncodedUnrooted ==
    \/ last_call = "encode_splits(True)"
    \/ last_call = "encode_splits(None)" /\ ~tree.is_rooted

\* C3: in the map of a tree encoded as unrooted, a split s of any edge and
\* its complement s ^ m in the full mask m are both keys and give one edge,
\* an edge that induces that bipartition.
C3_BothOrientationsResolveToOneEntry ==
    EncodedUnrooted =>
        \A i \in 1..tree.n :
          LET s == tree.split_mask[i]
              c == BitXor(s, all_taxa_bitmask(taxa_block))
          IN /\ split_edges_has(tree.split_edges, s)
             /\ split_edges_has(tree.split_edges, c)
             /\ split_edges_get(tree.split_edges, s)
                  = split_edges_get(tree.split_edges, c)
             /\ tree.split_mask[split_edges_get(tree.split_edges, s)]
                  \in {s, c}

\* C3 witness: a tree with s on one edge and s ^ m on another, which share
\* one entry of the map.
C3_Witness ==
    /\ EncodedUnrooted
    /\ \E i, j \in 1..tree.n :
         /\ i # j
         /\ tree.split_mask[i] # tree.split_mask[j]
         /\ tree.split_mask[j]
              = BitXor(tree.split_mask[i], all_taxa_bitmask(taxa_block))
         /\ split_edges_get(tree.split_edges, tree.split_mask[i])
              = split_edges_get(tree.split_edges, tree.split_mask[j])

\* C4: a call that succeeds adds one to total_trees_counted and one to the
\* count of every key of the tree's split_edges (1 for a new key), leaves
\* every other count alone; and no step lowers a count or drops a split.
C4_SuccessfulCallCountsEachSplitOnce ==
    [][/\ last_call' = "count_ok" =>
            /\ total_trees_counted' = total_trees_counted + 1
            /\ DOMAIN split_counts' = DOMAIN split_counts \cup TreeKeys(tree')
            /\ \A s \in TreeKeys(tree') :
                 split_counts'[s] = IF s \in DOMAIN split_counts
                                    THEN split_counts[s] + 1 ELSE 1
            /\ \A s \in DOMAIN split_counts \ TreeKeys(tree') :
                 split_counts'[s] = split_counts[s]
       /\ \A s \in DOMAIN split_counts :
            /\ s \in DOMAIN split_counts'
            /\ split_counts'[s] >= split_counts[s]]_vars

\* C4 witness: two edges of the counted tree induce one bipartition, which
\* stands at 1 after the call.
C4_Witness ==
    /\ last_call = "count_ok"
    /\ total_trees_counted = 1
    /\ \E i, j \in 1..tree.n :
         /\ i # j
         /\ split_edges_key(tree.split_edges, tree.split_mask[i])
              = split_edges_key(tree.split_edges, tree.split_mask[j])
         /\ split_counts[split_edges_key(tree.split_edges,
                                         tree.split_mask[i])] = 1

\* C5: a split_frequencies query returns the table a full recomputation
\* over the current counts gives; with a cache stamped with the current
\* total_trees_counted it leaves the cache alone and returns it, otherwise
\* it stores the table it returns, stamped with total_trees_counted.
C5_QueryEqualsFullRecompute ==
    [][last_call' = "split_frequencies" =>
         /\ returned' =
              [s \in DOMAIN split_counts |->
                 FloatDiv(split_counts[s],
                          IF total_trees_counted = 0
                          THEN 1 ELSE total_trees_counted)]
         /\ IF split_freqs # NoTable
               /\ trees_counted_for_freqs = total_trees_counted
            THEN /\ UNCHANGED <<split_freqs, trees_counted_for_freqs>>
                 /\ returned' = split_freqs[1]
            ELSE /\ split_freqs' = <<returned'>>
                 /\ trees_counted_for_freqs' = total_trees_counted]_vars

\* C5 witness: a query after the second tree, the cache holding the table
\* of that moment.
C5_Witness ==
    /\ last_call = "split_frequencies"
    /\ total_trees_counted = 2
    /\ trees_counted_for_freqs = 2
    /\ split_freqs = <<returned>>
    /\ \E s \in DOMAIN split_counts : split_counts[s] = 2

\* The four-taxon scenario: after one tree with an edge of split 0b0011 was
\* counted into an unrooted distribution, the same tree is counted again.
C6_SameTreeCountedAgain ==
    /\ taxa_block = ScenarioBlock
    /\ unrooted
    /\ total_trees_counted = 1
    /\ tree.split_mask # << >>
    /\ \E i \in 1..tree.n : tree.split_mask[i] = 3
    /\ last_call' = "count_ok"
    /\ Unencoded(tree') = Unencoded(tree)

\* split_frequencies as a query in the state after the step would return it.
C6_FrequenciesAfter ==
    get_split_frequencies(split_freqs', trees_counted_for_freqs',
                          split_counts', total_trees_counted').returned

\* C6 as stated: the tables are read with the key 0b0011 itself.
C6_SameTreeTwiceUnderRawKey ==
    [][C6_SameTreeCountedAgain =>
         /\ total_trees_counted' = 2
         /\ 3 \in DOMAIN split_counts'
         /\ split_counts'[3] = 2
         /\ 3 \in DOMAIN C6_FrequenciesAfter
         /\ C6_FrequenciesAfter[3] = <<1, 1>>]_vars

\* C6, amended: the tables hold the split under its canonical key 0b1100,
\* the orientation without the first taxon, and 0b0011 is no key of them.
C6_SameTreeTwiceUnderCanonicalKey ==
    [][C6_SameTreeCountedAgain =>
         /\ total_trees_counted' = 2
         /\ 3 \notin DOMAIN split_counts'
         /\ 12 \in DOMAIN split_counts'
         /\ split_counts'[12] = 2
         /\ 3 \notin DOMAIN C6_FrequenciesAfter
         /\ 12 \in DOMAIN C6_FrequenciesAfter
         /\ C6_FrequenciesAfter[12] = <<1, 1>>]_vars

\* C6 witness: the scenario's tree was counted twice and the frequencies
\* were read.
C6_Witness ==
    /\ taxa_block = ScenarioBlock
    /\ unrooted
    /\ total_trees_counted = 2
    /\ last_call = "split_frequencies"
    /\ tree.split_mask # << >>
    /\ \E i \in 1..tree.n : tree.split_mask[i] = 3
    /\ 12 \in DOMAIN split_counts
    /\ split_counts[12] = 2
    /\ returned[12] = <<1, 1>>

\* C7: every count is at least 1 and at most total_trees_counted, and every
\* frequency of the cached table lies in [0, 1].
C7_CountsWithinTreesCounted ==
    /\ \A s \in DOMAIN split_counts :
         split_counts[s] >= 1 /\ split_counts[s] <= total_trees_counted
    /\ split_freqs # NoTable =>
         \A s \in DOMAIN split_freqs[1] :
           /\ split_freqs[1][s][2] > 0
           /\ split_freqs[1][s][1] >= 0
           /\ split_freqs[1][s][1] <= split_freqs[1][s][2]

\* C7 witness: a rooted distribution with a table cached, after a call
\* that raised.
C7_Witness ==
    /\ last_call = "count_raised"
    /\ ~unrooted
    /\ total_trees_counted = 2
    /\ split_freqs # NoTable
    /\ \E s \in DOMAIN split_counts : split_counts[s] = 1

\* C8 as stated: the map has as many keys as the tree has edges.
C8_OneEntryPerEdge ==
    Encoded => Cardinality(TreeKeys(tree)) = tree.n

\* C8, amended: the map has one key per distinct split among the edges (per
\* distinct bipartition when unrooted), each key held by an edge inducing
\* it; so the keys are at most as many as the edges.
C8_OneEntryPerDistinctSplit ==
    Encoded =>
        /\ TreeKeys(tree) =
             {split_edges_key(tree.split_edges, tree.split_mask[i]) :
                i \in 1..tree.n}
        /\ \A k \in TreeKeys(tree) :
             /\ tree.split_edges.items[k] \in 1..tree.n
             /\ split_edges_key(tree.split_edges,
                    tree.split_mask[tree.split_edges.items[k]]) = k
        /\ Cardinality(TreeKeys(tree)) <= tree.n

\* C8 witness: a plain map with fewer keys than the tree has edges.
C8_Witness ==
    /\ Encoded
    /\ ~tree.split_edges.normalized
    /\ tree.n >= 3
    /\ Cardinality(TreeKeys(tree)) < tree.n

\* C9: count_bits returns the number of 1 bits of every v >= 0 (0 for 0,
\* and right beyond one 4-bit chunk) and raises ValueError for every v < 0.
C9_CountBitsIsPopulationCount ==
    util.fn = "count_bits" =>
        /\ util.value >= 0 => util.out = Return(BitCount(util.value))
        /\ util.value < 0 => util.out.raised = ValueError

\* C9 witness: a value of two full chunks was counted.
C9_Witness ==
    /\ util.fn = "count_bits"
    /\ util.value = 255
    /\ util.out = Return(8)

\* C10: for a split s that is a non-empty, non-full subset of the full mask
\* m, is_non_singleton_split(s, m) is truthy exactly when s and s ^ m both
\* have more than one bit; true for (0b0011, 0b1111), false for
\* (0b0001, 0b1111).
C10_InformativeIffBothSidesPlural ==
    util.fn = "is_non_singleton_split" =>
        /\ (/\ util.value # 0
            /\ util.value # util.mask
            /\ BitAnd(util.value, util.mask) = util.value)
           => (Truthy(util.out.value)
                 <=> /\ BitCount(util.value) > 1
                     /\ BitCount(BitXor(util.value, util.mask)) > 1)
        /\ (util.value = 3 /\ util.mask = 15) => Truthy(util.out.value)
        /\ (util.value = 1 /\ util.mask = 15) => ~Truthy(util.out.value)

\* C10 witness: the scenario's informative split was tested.
C10_Witness ==
    /\ util.fn = "is_non_singleton_split"
    /\ util.value = 3
    /\ util.mask = 15
    /\ Truthy(util.out.value)

RECURSIVE SumOf(_, _)
\* The sum of f over the finite set S.
SumOf(f, S) ==
    IF S = {} THEN 0
    ELSE LET x == CHOOSE y \in S : TRUE IN f[x] + SumOf(f, S \ {x})

\* A split with more than one taxon on each side of the full mask.
Informative(s, mask) == BitCount(s) > 1 /\ BitCount(BitXor(s, mask)) > 1

\* C11: splits_considered returns the sum of the counts, the number of
\* splits, and the same two over the informative splits, and changes no
\* field of the distribution.
C11_SplitsConsideredTalliesAndReadsOnly ==
    [][last_call' = "splits_considered" =>
         LET inf == {s \in DOMAIN split_counts :
                       Informative(s, all_taxa_bitmask(taxa_block))}
         IN /\ returned' = <<SumOf(split_counts, DOMAIN split_counts),
                              Cardinality(DOMAIN split_counts),
                              SumOf(split_counts, inf),
                              Cardinality(inf)>>
            /\ UNCHANGED <<taxa_block, total_trees_counted, splits,
                           split_counts, split_edge_lengths, split_node_ages,
                           ignore_edge_lengths, ignore_node_ages, unrooted,
                           split_freqs, trees_counted_for_freqs>>]_vars

\* C11 witness: a summary over informative and uninformative splits, an
\* informative one seen twice, with a frequency table cached.
C11_Witness ==
    /\ last_call = "splits_considered"
    /\ split_freqs # NoTable
    /\ returned[4] >= 1
    /\ returned[3] > returned[4]
    /\ returned[2] > returned[4]
    /\ returned[1] > returned[3]

\* The last call rendered a split.
Rendered == util.fn \in {"split_as_string", "split_as_string_rev"}

\* The position (from 1) of taxon index i in the rendering of n taxa: the
\* first taxon is rightmost in split_as_string, leftmost in the reverse.
PositionOf(i, n) ==
    IF util.fn = "split_as_string" THEN n - i ELSE i + 1

\* Bit i of v.
BitAt(v, i) == (v \div Pow2(i)) % 2

\* C12: a rendering is exactly as long as the taxa block and shows, for
\* each taxon index, symbol2 where the split has that bit and symbol1 where
\* it has not; the position of a taxon in split_as_string_rev mirrors its
\* position in split_as_string, so one is the reverse of the other.
C12_RenderingIsOneSymbolPerTaxon ==
    Rendered =>
        /\ Len(util.out) = util.taxa
        /\ \A i \in 0..(util.taxa - 1) :
             util.out[PositionOf(i, util.taxa)] =
                 IF BitAt(util.value, i) = 1 THEN util.symbol2
                 ELSE util.symbol1

\* The split read back from a rendering: the bits whose character is the
\* symbol of a set bit, the first taxon rightmost in split_as_string and
\* leftmost in split_as_string_rev.
SplitFromRendering(out, fn, present) ==
    LET bits == {i \in 0..(Len(out) - 1) :
                   out[IF fn = "split_as_string" THEN Len(out) - i
                       ELSE i + 1] = present}
    IN SumOf([i \in bits |-> Pow2(i)], bits)

\* C13: with two distinct symbols, the split read back from a rendering is
\* the rendered split restricted to the bits of the taxa block.
C13_RenderingReadsBackAsTheSplit ==
    (Rendered /\ util.symbol1 # util.symbol2) =>
        SplitFromRendering(util.out, util.fn, util.symbol2)
            = util.value % Pow2(util.taxa)

RECURSIVE IsBelow(_, _, _)
\* Node j is node i or a descendant of it.
IsBelow(t, j, i) ==
    j = i \/ (t.parent[j] # 0 /\ IsBelow(t, t.parent[j], i))

\* The nodes without children.
IsLeaf(t, i) == \A j \in 1..t.n : t.parent[j] # i

\* The bit set of the taxa on the labelled leaves at or below node i.
TaxaBelow(t, tb, i) ==
    LET bits == {taxon_index(tb, t.taxon[j]) :
                   j \in {k \in 1..t.n : /\ IsBelow(t, k, i)
                                          /\ IsLeaf(t, k)
                                          /\ t.taxon[k] # None}}
    IN SumOf([b \in bits |-> Pow2(b)], bits)

\* C14: after encode_splits the edge above an inner node carries the OR of
\* its children's masks, the edge above a labelled leaf that taxon's bit,
\* the edge above an unlabelled leaf 0; so every edge carries the set of
\* the taxa on the labelled leaves below it.
C14_EdgeMaskIsTaxaBelow ==
    Encoded =>
        \A i \in 1..tree.n :
          LET ch == {j \in 1..tree.n : tree.parent[j] = i}
          IN /\ ch # {} =>
                  \A b \in 0..(Len(taxa_block) - 1) :
                    BitAt(tree.split_mask[i], b) = 1
                      <=> \E j \in ch : BitAt(tree.split_mask[j], b) = 1
             /\ (ch = {} /\ tree.taxon[i] # None) =>
                  tree.split_mask[i]
                    = Pow2(taxon_index(taxa_block, tree.taxon[i]))
             /\ (ch = {} /\ tree.taxon[i] = None) => tree.split_mask[i] = 0
             /\ tree.split_mask[i] = TaxaBelow(tree, taxa_block, i)
             /\ tree.split_mask[i] <= all_taxa_bitmask(taxa_block)

\* C14 witness: an inner node over two leaves with different taxa and an
\* unlabelled leaf beside them.
C14_Witness ==
    /\ Encoded
    /\ \E i, j, k \in 1..tree.n :
         /\ tree.parent[j] = i /\ tree.parent[k] = i /\ j # k
         /\ tree.split_mask[j] # 0 /\ tree.split_mask[k] # 0
         /\ tree.split_mask[j] # tree.split_mask[k]
         /\ BitCount(tree.split_mask[i]) = 2
    /\ \E u \in 1..tree.n :
         IsLeaf(tree, u) /\ tree.taxon[u] = None /\ tree.split_mask[u] = 0

\* The split masks on the edges of the tree.
EdgeMasks(t) == {t.split_mask[i] : i \in 1..t.n}

SamplesOf(table, s) == IF s \in DOMAIN table THEN table[s] ELSE << >>

\* C16: while ignore_edge_lengths is False, every split seen has as many
\* branch-length samples as occurrences, and a successful call appends, for
\* each split of its tree, the length of the edge the tree's map holds for
\* it (an edge inducing that split), 0 for an edge without a length, after
\* the samples of the trees counted before, and touches no other split's.
C16_OneLengthSamplePerOccurrence ==
    [][~ignore_edge_lengths' =>
         /\ DOMAIN split_edge_lengths' = DOMAIN split_counts'
         /\ \A s \in DOMAIN split_counts' :
              Len(split_edge_lengths'[s]) = split_counts'[s]
         /\ last_call' = "count_ok" =>
              /\ \A s \in TreeKeys(tree') :
                   LET edge == tree'.split_edges.items[s]
                   IN /\ split_edges_key(tree'.split_edges,
                                          tree'.split_mask[edge]) = s
                      /\ split_edge_lengths'[s] =
                           Append(SamplesOf(split_edge_lengths, s),
                                  IF tree'.length[edge] = NoLength THEN 0
                                  ELSE tree'.length[edge])
              /\ \A s \in DOMAIN split_edge_lengths' \ TreeKeys(tree') :
                   split_edge_lengths'[s] = SamplesOf(split_edge_lengths, s)
      ]_vars

\* C16 witness: a split seen in two trees, first on an edge without a length
\* and then on one with a length.
C16_Witness ==
    /\ last_call = "count_ok"
    /\ ~ignore_edge_lengths
    /\ \E s \in DOMAIN split_edge_lengths :
         /\ split_counts[s] = 2
         /\ split_edge_lengths[s][1] = 0
         /\ split_edge_lengths[s][2] > 0

\* The step is a count_splits_on_tree call.
CountStep == last_call' \in {"count_ok", "count_raised"}

\* C17: a count_splits_on_tree call leaves split_edge_lengths alone while
\* ignore_edge_lengths is True and split_node_ages alone while
\* ignore_node_ages is True; a successful one still adds one to
\* total_trees_counted and to the count of each split of its tree; and with
\* node ages collected it appends, for each of those splits, the tip
\* distance of the head node of the edge held for it (0 at a leaf), every
\* edge of the map having its head node.
C17_IgnoreFlagsSuppressSamplesOnly ==
    [][CountStep =>
         /\ ignore_edge_lengths => UNCHANGED split_edge_lengths
         /\ ignore_node_ages => UNCHANGED split_node_ages
         /\ last_call' = "count_ok" =>
              /\ total_trees_counted' = total_trees_counted + 1
              /\ \A s \in TreeKeys(tree') :
                   split_counts'[s] =
                     (IF s \in DOMAIN split_counts THEN split_counts[s]
                      ELSE 0) + 1
              /\ ~ignore_node_ages =>
                   /\ DOMAIN split_node_ages' = DOMAIN split_counts'
                   /\ \A s \in TreeKeys(tree') :
                        LET head_node == tree'.split_edges.items[s]
                            age == distance_from_tip(tree', head_node)
                        IN /\ head_node \in 1..tree'.n
                           /\ IsLeaf(tree', head_node) => age = 0
                           /\ split_node_ages'[s] =
                                Append(SamplesOf(split_node_ages, s), age)
                   /\ \A s \in DOMAIN split_node_ages' \ TreeKeys(tree') :
                        split_node_ages'[s] = SamplesOf(split_node_ages, s)
      ]_vars

\* C17 witness: two trees counted with branch lengths suppressed and node
\* ages collected, an inner node's age among them.
C17_Witness ==
    /\ last_call = "count_ok"
    /\ ignore_edge_lengths /\ ~ignore_node_ages
    /\ total_trees_counted = 2
    /\ split_counts # EmptyDict
    /\ split_edge_lengths = EmptyDict
    /\ \E s \in DOMAIN split_node_ages :
         Len(split_node_ages[s]) = 2 /\ split_node_ages[s][2] > 0

\* Bit p of the mask, the mask -1 having every bit.
MaskBitAt(mask, p) == IF mask = -1 THEN 1 ELSE BitAt(mask, p)

\* C18: the indices come in ascending order, one for each bit set in both
\* the value and the mask and no other: the bit's position, or with
\* ordination_in_mask the number of mask bits below it, plus one when
\* one_based.
C18_IndicesOfBitsSetInValueAndMask ==
    util.fn = "split_to_list" =>
        LET positions == {p \in 0..MaxIndexBits :
                            /\ BitAt(util.value, p) = 1
                            /\ MaskBitAt(util.mask, p) = 1}
            index(p) ==
                (IF util.ordination_in_mask
                 THEN Cardinality({q \in 0..(p - 1) :
                                     MaskBitAt(util.mask, q) = 1})
                 ELSE p)
                + (IF util.one_based THEN 1 ELSE 0)
        IN /\ Len(util.out) = Cardinality(positions)
           /\ \A i \in 1..(Len(util.out) - 1) : util.out[i] < util.out[i + 1]
           /\ {util.out[i] : i \in 1..Len(util.out)}
                = {index(p) : p \in positions}

\* C18 witness: value 0b1110 under mask 0b1010, reindexed and one-based,
\* gives 1 and 2 for the bits at positions 1 and 3.
C18_Witness ==
    /\ util.fn = "split_to_list"
    /\ util.value = 14 /\ util.mask = 10
    /\ util.one_based /\ util.ordination_in_mask
    /\ util.out = <<1, 2>>

====
